---- MODULE Spec2Model ----
(***************************************************************************)
(* The checkpointed batch clue generator, backend/scripts/generate_clues.py *)
(* One operating-system process runs main() from top to bottom; it may be   *)
(* terminated from outside at any point and started again with the same     *)
(* command line.  The two artifacts on disk (the dictionary and the         *)
(* progress file) survive a termination, everything else is lost.           *)
(***************************************************************************)
EXTENDS Integers, Sequences, FiniteSets, TLC

(* ------------------------------ bounds --------------------------------- *)
\* number of entries of data['words']
NumWords == 3
\* BATCH_SIZE (100 in the source) ranges over 1..MaxBatchSize
MaxBatchSize == 2
\* the largest --limit tried
MaxLimit == 2
\* how many times the process is terminated from outside and started again
MaxCrashes == 2

(* -------------------------- program constants --------------------------- *)
MAX_RETRIES == 3
RETRY_DELAY == 5
MODEL == "claude-3-5-haiku-20241022"

(* ------------------------------ values ---------------------------------- *)
Indices == 0 .. (NumWords - 1)

Min(a, b) == IF a < b THEN a ELSE b

Max(a, b) == IF a < b THEN b ELSE a

\* data['words'][i]['word']: the dictionary's words are distinct; word i is
\* written 100 + i so that a word is never mistaken for its index.
Word(i) == 100 + i

\* Python's list indexing: a negative index counts from the end.
PyIndex(i) == IF i < 0 THEN i + NumWords ELSE i

\* words[i] raises IndexError outside -len..len-1
InRange(i) == (0 - NumWords) <= i /\ i < NumWords

Digit(d) == CASE d = 0 -> "0" [] d = 1 -> "1" [] d = 2 -> "2" [] d = 3 -> "3"
              [] d = 4 -> "4" [] d = 5 -> "5" [] d = 6 -> "6" [] d = 7 -> "7"
              [] d = 8 -> "8" [] OTHER -> "9"

\* str(idx), the key of the clue map: a sign and the decimal digits
Str(i) == IF i < 0 THEN <<"-", Digit(0 - i)>> ELSE <<Digit(i)>>

\* f"Define: {w}"
Define(w) == <<"Define: ", w>>

\* the j-th entry (1-based) of a JSON array the service replied with
Svc(j) == <<"svc", j>>

\* the j-th key (1-based) of a JSON object the service replied with
Key(j) == <<"key", j>>

\* range(a, b) as a list
Range(a, b) == [k \in 1 .. Max(0, b - a) |-> a + k - 1]

\* seq[a:b] for 0 <= a (Python slice, 0-based, end clipped)
Slice(seq, a, b) == SubSeq(seq, a + 1, Min(b, Len(seq)))

Elems(seq) == {seq[k] : k \in 1 .. Len(seq)}

MinOf(S) == CHOOSE x \in S : \A y \in S : x <= y

RECURSIVE ListOfSet(_)
\* list(completed_set): every element once; the order is the interpreter's
\* and is never read back (load_progress's caller takes set() of the list).
ListOfSet(S) == IF S = {} THEN <<>>
                ELSE <<MinOf(S)>> \o ListOfSet(S \ {MinOf(S)})

\* d[k] = v on a dict
DictPut(d, k, v) == [x \in (DOMAIN d) \cup {k} |-> IF x = k THEN v ELSE d[x]]

EmptyDict == [x \in {} |-> 0]

(* --------------------------- the two artifacts -------------------------- *)
\* dictionary-with-clues.json as process_dictionary.py writes it: every word
\* has the placeholder clue and the metadata has no clue stamps.
InitialDataset ==
    [state |-> "ok",
     metadata |-> [cluesGeneratedAt |-> "unset", cluesModel |-> "unset"],
     words |-> [i \in Indices |-> Define(Word(i))]]

\* open(path, 'w') has truncated the file and json.dump has not finished
Truncated == [state |-> "truncated"]

Absent == [state |-> "absent"]

\* the JSON text of a progress dict
ProgressJson(completed, cache) ==
    [state |-> "ok", completed_indices |-> ListOfSet(completed), clues |-> cache]

VARIABLES
    args,               \* the parsed command line (and the environment's key)
    BATCH_SIZE,         \* module constant, fixed for the run
    datasetFile,        \* INPUT_FILE = OUTPUT_FILE on disk
    progressFile,       \* PROGRESS_FILE on disk
    pc,                 \* where main() is
    data,               \* main: data (words aliases data['words'])
    completed_set,      \* main: completed_set
    clues_cache,        \* main: clues_cache (aliases progress['clues'])
    indices_to_process, \* main: indices_to_process
    batch_num,          \* main: batch_num
    batch_indices,      \* main: batch_indices
    attempt,            \* generate_clues_batch: attempt
    slept,              \* generate_clues_batch: the time.sleep calls so far
    clues,              \* main: clues, the value generate_clues_batch returned
    processed,          \* main: processed
    crashes,            \* external terminations so far
    hist,               \* history of the run, read by the properties only
    runs                \* the processes of two runs started side by side

vars == <<args, BATCH_SIZE, datasetFile, progressFile, pc, data, completed_set,
          clues_cache, indices_to_process, batch_num, batch_indices, attempt,
          slept, clues, processed, crashes, hist, runs>>

disk == <<datasetFile, progressFile>>

memory == <<data, completed_set, clues_cache, indices_to_process, batch_num,
            batch_indices, attempt, slept, clues, processed>>

\* the process image before main() has assigned anything
FreshMemory ==
    /\ data = Absent
    /\ completed_set = {}
    /\ clues_cache = EmptyDict
    /\ indices_to_process = <<>>
    /\ batch_num = 0
    /\ batch_indices = <<>>
    /\ attempt = 0
    /\ slept = <<>>
    /\ clues = <<>>
    /\ processed = 0

\* history: what this run loaded and requested, and what the last
\* termination interrupted
NoReply == [kind |-> "none", len |-> 0]

FreshRun(h) ==
    [h EXCEPT !.loaded = Absent, !.batches = <<>>, !.returned = "none",
              !.last = NoReply]

NoHistory == [loaded |-> Absent, batches |-> <<>>, returned |-> "none",
              last |-> NoReply, lastGood |-> Absent, saving |-> Absent,
              crashedAt |-> "none", cleared |-> Absent]

Starts == {0 - (NumWords + 1), 0 - 1, 0, 1}

Limits == 0 .. MaxLimit

Init ==
    /\ args \in [api_key : BOOLEAN, dry_run : BOOLEAN, start : Starts,
                 limit_given : BOOLEAN, limit : Limits]
    /\ (~args.limit_given) => args.limit = 0
    /\ BATCH_SIZE \in 1 .. MaxBatchSize
    /\ datasetFile = InitialDataset
    /\ progressFile = Absent
    /\ pc = "start"
    /\ FreshMemory
    /\ crashes = 0
    /\ hist = NoHistory
    /\ runs = <<>>

(* ------------------------------ main() ---------------------------------- *)
\* line 135 never true
MissingKeyIgnored == FALSE

\* line 135: no key and no dry run
MissingKey == ~args.api_key /\ ~args.dry_run

\* lines 133-138: the credential check
CheckApiKey ==
    /\ pc = "start"
    /\ pc' = IF MissingKey THEN "exit1" ELSE "load_dictionary"
    /\ hist' = FreshRun(hist)
    /\ UNCHANGED <<args, BATCH_SIZE, runs, disk, memory, crashes>>

\* lines 140-144: json.load of the dictionary; an unparseable file raises
LoadDictionary ==
    /\ pc = "load_dictionary"
    /\ IF datasetFile.state = "ok"
       THEN data' = datasetFile /\ pc' = "load_progress"
       ELSE data' = data /\ pc' = "failed"
    /\ UNCHANGED <<args, BATCH_SIZE, runs, disk, completed_set, clues_cache,
                   indices_to_process, batch_num, batch_indices, attempt,
                   slept, clues, processed, crashes, hist>>

\* load_progress taking a file it cannot parse for no file at all
load_progress_lenient == IF progressFile.state = "ok"
                         THEN progressFile
                         ELSE ProgressJson({}, EmptyDict)

\* load_progress: the file's dict, or the empty progress when there is none;
\* json.load raises on a file it cannot parse (the value is then Truncated)
load_progress == IF progressFile.state = "absent"
                 THEN ProgressJson({}, EmptyDict)
                 ELSE progressFile

\* line 157
end_idx == IF args.limit_given /\ args.limit # 0
           THEN Min(NumWords, args.limit + args.start)
           ELSE NumWords

\* line 160 without its filter
PendingUnfiltered(completed) == Range(args.start, end_idx)

\* line 160
Pending(completed) ==
    SelectSeq(Range(args.start, end_idx), LAMBDA i : i \notin completed)

\* line 164 with the test left out
AfterPlanNoDryRun == "loop"

\* line 164: where main() goes once the pending indices are listed
AfterPlan == IF args.dry_run THEN "dry_run" ELSE "loop"

\* lines 148-162: load the progress and list the indices to process
LoadProgress ==
    /\ pc = "load_progress"
    /\ IF load_progress.state = "truncated"
       THEN /\ pc' = "failed"
            /\ UNCHANGED <<completed_set, clues_cache, indices_to_process, hist>>
       ELSE /\ completed_set' = Elems(load_progress.completed_indices)
            /\ clues_cache' = load_progress.clues
            /\ indices_to_process' = Pending(completed_set')
            /\ hist' = [hist EXCEPT !.loaded = load_progress]
            /\ pc' = AfterPlan
    /\ UNCHANGED <<args, BATCH_SIZE, runs, disk, data, batch_num, batch_indices,
                   attempt, slept, clues, processed, crashes>>

\* lines 164-168: the dry run prints the first ten words and returns
DryRun ==
    /\ pc = "dry_run"
    /\ pc' = IF \A k \in 1 .. Min(10, Len(indices_to_process)) :
                   InRange(indices_to_process[k])
             THEN "returned" ELSE "failed"
    /\ UNCHANGED <<args, BATCH_SIZE, runs, disk, memory, crashes, hist>>

\* line 174 rounding down
batch_count_floor == Len(indices_to_process) \div BATCH_SIZE

\* line 174
batch_count == (Len(indices_to_process) + BATCH_SIZE - 1) \div BATCH_SIZE

\* lines 182-184
BatchSlice(pending, n) ==
    Slice(pending, n * BATCH_SIZE, Min(n * BATCH_SIZE + BATCH_SIZE, Len(pending)))

\* line 186
batch_words == [k \in 1 .. Len(batch_indices) |-> Word(PyIndex(batch_indices[k]))]

\* lines 181-188: the next slice of the pending list; words[i] raises
\* IndexError for an index outside the list
BeginBatch ==
    /\ pc = "loop"
    /\ batch_num < batch_count
    /\ batch_indices' = BatchSlice(indices_to_process, batch_num)
    /\ IF \A k \in 1 .. Len(batch_indices') : InRange(batch_indices'[k])
       THEN /\ pc' = "generate"
            /\ hist' = [hist EXCEPT !.batches = Append(@, batch_indices'),
                                    !.returned = "none", !.last = NoReply]
       ELSE /\ pc' = "failed"
            /\ hist' = hist
    /\ attempt' = 0
    /\ slept' = <<>>
    /\ UNCHANGED <<args, BATCH_SIZE, runs, disk, data, completed_set, clues_cache,
                   indices_to_process, batch_num, clues, processed, crashes>>

(* ------------------------ generate_clues_batch -------------------------- *)
\* What client.messages.create does on one attempt: a reply whose text is a
\* JSON array or a JSON object of len entries, a JSON scalar (a number,
\* null), text that is no JSON, or an anthropic.APIError.
Replies(K) ==
    [kind : {"array", "object"}, len : 0 .. (K + 1)]
        \cup [kind : {"scalar", "unparseable", "api_error"}, len : {0}]

\* json.loads of an array reply
ArrayOf(reply) == [j \in 1 .. reply.len |-> Svc(j)]

\* lines 102-107 padding with the words counted from the first one
PadOrTruncateFromFirst(parsed, words) ==
    IF Len(parsed) # Len(words)
    THEN SubSeq(parsed \o [k \in 1 .. Max(0, Len(words) - Len(parsed)) |->
                               Define(words[k])],
                1, Len(words))
    ELSE parsed

\* lines 102-107 left out
PadOrTruncateNone(parsed, words) == parsed

\* lines 102-107: pad with "Define: <word>" or truncate to len(words)
PadOrTruncate(parsed, words) ==
    IF Len(parsed) # Len(words)
    THEN SubSeq(parsed \o [k \in 1 .. Max(0, Len(words) - Len(parsed)) |->
                               Define(words[Len(parsed) + k])],
                1, Len(words))
    ELSE parsed

\* line 122 with the words taken from the wrong end
FallbackReversed(words) ==
    [k \in 1 .. Len(words) |-> Define(words[Len(words) - k + 1])]

\* line 122
Fallback(words) == [k \in 1 .. Len(words) |-> Define(words[k])]

\* lines 114-115 and 118-119: the sleep before the next attempt, if any
SleepAfter(kind, n) ==
    IF n < MAX_RETRIES - 1
    THEN <<IF kind = "api_error" THEN RETRY_DELAY * (n + 1) ELSE RETRY_DELAY>>
    ELSE <<>>

\* lines 100-109 on a reply that json.loads accepts: the value returned
\* ("ok"), or the exception that len(), append or the slice raises on a
\* value that is no list ("raise"); zip() later iterates a dict by its keys
Interpret(reply, words) ==
    CASE reply.kind = "array" ->
            [how |-> "ok", clues |-> PadOrTruncate(ArrayOf(reply), words)]
      [] reply.kind = "object" /\ reply.len = Len(words) ->
            [how |-> "ok", clues |-> [j \in 1 .. reply.len |-> Key(j)]]
      [] OTHER -> [how |-> "raise", clues |-> <<>>]

\* lines 82-119: one pass of the retry loop
Attempt ==
    /\ pc = "generate"
    /\ attempt < MAX_RETRIES
    /\ \E reply \in Replies(Len(batch_indices)) :
          /\ hist' = [hist EXCEPT
                        !.last = reply,
                        !.returned =
                            IF reply.kind \in {"unparseable", "api_error"}
                            THEN "none"
                            ELSE IF Interpret(reply, batch_words).how = "ok"
                                 THEN "reply" ELSE "raised"]
          /\ IF reply.kind \in {"unparseable", "api_error"}
             THEN /\ slept' = slept \o SleepAfter(reply.kind, attempt)
                  /\ attempt' = attempt + 1
                  /\ UNCHANGED <<pc, clues>>
             ELSE /\ pc' = IF Interpret(reply, batch_words).how = "ok"
                           THEN "merge" ELSE "failed"
                  /\ clues' = Interpret(reply, batch_words).clues
                  /\ attempt' = 0
                  /\ slept' = <<>>
    /\ UNCHANGED <<args, BATCH_SIZE, runs, disk, data, completed_set, clues_cache,
                   indices_to_process, batch_num, batch_indices, processed,
                   crashes>>

\* lines 121-122: every attempt failed
ReturnFallback ==
    /\ pc = "generate"
    /\ attempt = MAX_RETRIES
    /\ clues' = Fallback(batch_words)
    /\ pc' = "merge"
    /\ attempt' = 0
    /\ slept' = <<>>
    /\ hist' = [hist EXCEPT !.returned = "fallback"]
    /\ UNCHANGED <<args, BATCH_SIZE, runs, disk, data, completed_set, clues_cache,
                   indices_to_process, batch_num, batch_indices, processed,
                   crashes>>

(* --------------------------- main(): the loop --------------------------- *)
\* zip(batch_indices, clues) stops at the shorter of the two
ZipLen(idxs, cl) == Min(Len(idxs), Len(cl))

RECURSIVE MergeWords(_, _, _)
\* line 195 over the zip: words[idx]['clue'] = clue
MergeWords(words, idxs, cl) ==
    IF idxs = <<>> \/ cl = <<>> THEN words
    ELSE MergeWords([words EXCEPT ![PyIndex(Head(idxs))] = Head(cl)],
                    Tail(idxs), Tail(cl))

RECURSIVE MergeCacheByPosition(_, _, _)
\* line 196 keyed by the position in the word list instead of the index
MergeCacheByPosition(cache, idxs, cl) ==
    IF idxs = <<>> \/ cl = <<>> THEN cache
    ELSE MergeCacheByPosition(DictPut(cache, Str(PyIndex(Head(idxs))), Head(cl)),
                              Tail(idxs), Tail(cl))

RECURSIVE MergeCache(_, _, _)
\* line 196 over the zip: clues_cache[str(idx)] = clue
MergeCache(cache, idxs, cl) ==
    IF idxs = <<>> \/ cl = <<>> THEN cache
    ELSE MergeCache(DictPut(cache, Str(Head(idxs)), Head(cl)),
                    Tail(idxs), Tail(cl))

\* line 197 missing the last pair of the zip
MergeCompletedShort(completed, idxs, cl) ==
    completed \cup {idxs[k] : k \in 1 .. (ZipLen(idxs, cl) - 1)}

\* line 197 over the zip: completed_set.add(idx)
MergeCompleted(completed, idxs, cl) ==
    completed \cup {idxs[k] : k \in 1 .. ZipLen(idxs, cl)}

\* lines 193-197
MergeBatch ==
    /\ pc = "merge"
    /\ data' = [data EXCEPT !.words = MergeWords(@, batch_indices, clues)]
    /\ clues_cache' = MergeCache(clues_cache, batch_indices, clues)
    /\ completed_set' = MergeCompleted(completed_set, batch_indices, clues)
    /\ pc' = "save_open"
    /\ UNCHANGED <<args, BATCH_SIZE, runs, disk, indices_to_process, batch_num,
                   batch_indices, attempt, slept, clues, processed, crashes,
                   hist>>

\* lines 200-201 and line 60: open(PROGRESS_FILE, 'w') empties the file
SaveProgressOpen ==
    /\ pc = "save_open"
    /\ progressFile' = Truncated
    /\ hist' = [hist EXCEPT !.saving = ProgressJson(completed_set, clues_cache)]
    /\ pc' = "save_dump"
    /\ UNCHANGED <<args, BATCH_SIZE, runs, datasetFile, memory, crashes>>

\* line 61: json.dump and the close of the file
SaveProgressDump ==
    /\ pc = "save_dump"
    /\ progressFile' = ProgressJson(completed_set, clues_cache)
    /\ hist' = [hist EXCEPT !.lastGood = progressFile', !.saving = Absent]
    /\ pc' = "advance"
    /\ UNCHANGED <<args, BATCH_SIZE, runs, datasetFile, memory, crashes>>

\* lines 204-213: the counters, the telemetry and the inter-batch delay
AdvanceBatch ==
    /\ pc = "advance"
    /\ processed' = processed + Len(batch_indices)
    /\ batch_num' = batch_num + 1
    /\ pc' = "loop"
    /\ UNCHANGED <<args, BATCH_SIZE, runs, disk, data, completed_set, clues_cache,
                   indices_to_process, batch_indices, attempt, slept, clues,
                   crashes, hist>>

(* ------------------------- main(): the commit --------------------------- *)
\* lines 219-220
Stamped(d) == [d EXCEPT !.metadata = [cluesGeneratedAt |-> "now",
                                      cluesModel |-> MODEL]]

\* lines 215-222: the loop is over; stamp the metadata and open the
\* dictionary for writing, which empties it
WriteDatasetOpen ==
    /\ pc = "loop"
    /\ batch_num >= batch_count
    /\ data' = Stamped(data)
    /\ datasetFile' = Truncated
    /\ pc' = "write_dump"
    /\ UNCHANGED <<args, BATCH_SIZE, runs, progressFile, completed_set, clues_cache,
                   indices_to_process, batch_num, batch_indices, attempt,
                   slept, clues, processed, crashes, hist>>

\* line 223: json.dump(data) and the close of the file
WriteDatasetDump ==
    /\ pc = "write_dump"
    /\ datasetFile' = data
    /\ pc' = "clear"
    /\ UNCHANGED <<args, BATCH_SIZE, runs, progressFile, memory, crashes, hist>>

\* lines 225-231: remove the progress file if there is one
ClearProgress ==
    /\ pc = "clear"
    /\ progressFile' = Absent
    /\ hist' = [hist EXCEPT !.cleared = progressFile]
    /\ pc' = "done"
    /\ UNCHANGED <<args, BATCH_SIZE, runs, datasetFile, memory, crashes>>

(* ------------------------ external termination -------------------------- *)
Running == {"load_dictionary", "load_progress", "dry_run", "loop", "generate",
            "merge", "save_open", "save_dump", "advance", "write_dump", "clear"}

\* The process is killed and later started again with the same command
\* line: the files stay as they are, the process image is fresh.
Terminate ==
    /\ pc \in Running
    /\ crashes < MaxCrashes
    /\ crashes' = crashes + 1
    /\ pc' = "start"
    /\ data' = Absent
    /\ completed_set' = {}
    /\ clues_cache' = EmptyDict
    /\ indices_to_process' = <<>>
    /\ batch_num' = 0
    /\ batch_indices' = <<>>
    /\ attempt' = 0
    /\ slept' = <<>>
    /\ clues' = <<>>
    /\ processed' = 0
    /\ hist' = [hist EXCEPT !.crashedAt = pc]
    /\ UNCHANGED <<args, BATCH_SIZE, runs, disk>>

Next ==
    \/ CheckApiKey
    \/ LoadDictionary
    \/ LoadProgress
    \/ DryRun
    \/ BeginBatch
    \/ Attempt
    \/ ReturnFallback
    \/ MergeBatch
    \/ SaveProgressOpen
    \/ SaveProgressDump
    \/ AdvanceBatch
    \/ WriteDatasetOpen
    \/ WriteDatasetDump
    \/ ClearProgress
    \/ Terminate

Spec == Init /\ [][Next]_vars

(* ------------------- two runs over disjoint sub-ranges ------------------ *)
\* Two processes of the same script, started by the operator with disjoint
\* (--start, --limit) ranges and a credential.  Each has its own process
\* image; both use the one INPUT_FILE = OUTPUT_FILE and the one
\* PROGRESS_FILE (lines 33-35).  Neither is terminated from outside.
RunIds == {1, 2}

Other(p) == 3 - p

\* the process image of a run before main() has assigned anything
FreshRunImage(start, limit_given, limit) ==
    [pc |-> "start",
     args |-> [start |-> start, limit_given |-> limit_given, limit |-> limit],
     data |-> Absent, completed_set |-> {}, clues_cache |-> EmptyDict,
     indices_to_process |-> <<>>, batch_num |-> 0, batch_indices |-> <<>>,
     clues |-> <<>>, after |-> FALSE]

\* line 157 for the arguments a
RunEndIdx(a) == IF a.limit_given /\ a.limit # 0
                THEN Min(NumWords, a.limit + a.start)
                ELSE NumWords

\* line 160 for the arguments a
RunPending(a, completed) ==
    SelectSeq(Range(a.start, RunEndIdx(a)), LAMBDA i : i \notin completed)

\* line 174 for the process image r
RunBatchCount(r) ==
    (Len(r.indices_to_process) + BATCH_SIZE - 1) \div BATCH_SIZE

\* line 186 for the process image r
RunBatchWords(r) ==
    [k \in 1 .. Len(r.batch_indices) |-> Word(PyIndex(r.batch_indices[k]))]

\* What json.dump and the close leave in a file this process opened with
\* 'w': its own text if nobody wrote since; its own text or a mix of two
\* texts that does not parse if another process wrote meanwhile; nothing
\* under the path if the file was removed meanwhile.
DumpResults(file, text) ==
    CASE file.state = "truncated" -> {text}
      [] file.state = "ok" -> {text, Truncated}
      [] OTHER -> {Absent}

ParFrame == UNCHANGED <<args, BATCH_SIZE, pc, memory, crashes, hist>>

ParInit ==
    /\ args = [api_key |-> TRUE, dry_run |-> FALSE, start |-> 0,
               limit_given |-> FALSE, limit |-> 0]
    /\ BATCH_SIZE \in 1 .. MaxBatchSize
    /\ datasetFile = InitialDataset
    /\ progressFile = Absent
    /\ pc = "two_runs"
    /\ FreshMemory
    /\ crashes = 0
    /\ hist = NoHistory
    /\ \E c \in 1 .. (NumWords - 1) :
          runs = [p \in RunIds |->
                    IF p = 1 THEN FreshRunImage(0, TRUE, c)
                    ELSE FreshRunImage(c, FALSE, 0)]

\* lines 133-146: the credential is there; json.load of the dictionary
PLoadDictionary(p) ==
    /\ runs[p].pc = "start"
    /\ runs' = [runs EXCEPT ![p] =
                  IF datasetFile.state = "ok"
                  THEN [@ EXCEPT !.pc = "load_progress", !.data = datasetFile,
                                 !.after = (runs[Other(p)].pc = "done")]
                  ELSE [@ EXCEPT !.pc = "failed"]]
    /\ UNCHANGED disk
    /\ ParFrame

\* lines 148-162
PLoadProgress(p) ==
    /\ runs[p].pc = "load_progress"
    /\ runs' = [runs EXCEPT ![p] =
                  IF load_progress.state = "truncated"
                  THEN [@ EXCEPT !.pc = "failed"]
                  ELSE [@ EXCEPT
                          !.pc = "loop",
                          !.completed_set = Elems(load_progress.completed_indices),
                          !.clues_cache = load_progress.clues,
                          !.indices_to_process =
                              RunPending(runs[p].args, Elems(load_progress.completed_indices))]]
    /\ UNCHANGED disk
    /\ ParFrame

\* lines 181-188
PBeginBatch(p) ==
    /\ runs[p].pc = "loop"
    /\ runs[p].batch_num < RunBatchCount(runs[p])
    /\ runs' = [runs EXCEPT ![p] =
                  [@ EXCEPT !.pc = "generate",
                            !.batch_indices =
                                BatchSlice(runs[p].indices_to_process, runs[p].batch_num)]]
    /\ UNCHANGED disk
    /\ ParFrame

\* line 191, generate_clues_batch as a whole: the value it returns for a
\* parseable reply, the exception it raises on one that is no list, or the
\* fallback clues when every attempt ended in a parse or service error
PGenerate(p) ==
    /\ runs[p].pc = "generate"
    /\ \E reply \in Replies(Len(runs[p].batch_indices)) :
          LET words == RunBatchWords(runs[p])
              got == IF reply.kind \in {"unparseable", "api_error"}
                     THEN [how |-> "ok", clues |-> Fallback(words)]
                     ELSE Interpret(reply, words)
          IN  runs' = [runs EXCEPT ![p] =
                         IF got.how = "ok"
                         THEN [@ EXCEPT !.pc = "merge", !.clues = got.clues]
                         ELSE [@ EXCEPT !.pc = "failed"]]
    /\ UNCHANGED disk
    /\ ParFrame

\* lines 193-197
PMergeBatch(p) ==
    /\ runs[p].pc = "merge"
    /\ runs' = [runs EXCEPT ![p] =
                  [@ EXCEPT
                     !.pc = "save_open",
                     !.data = [@ EXCEPT !.words =
                                  MergeWords(@, runs[p].batch_indices, runs[p].clues)],
                     !.clues_cache =
                         MergeCache(@, runs[p].batch_indices, runs[p].clues),
                     !.completed_set =
                         MergeCompleted(@, runs[p].batch_indices, runs[p].clues)]]
    /\ UNCHANGED disk
    /\ ParFrame

\* lines 200-201 and line 60
PSaveProgressOpen(p) ==
    /\ runs[p].pc = "save_open"
    /\ progressFile' = Truncated
    /\ runs' = [runs EXCEPT ![p] = [@ EXCEPT !.pc = "save_dump"]]
    /\ UNCHANGED datasetFile
    /\ ParFrame

\* line 61
PSaveProgressDump(p) ==
    /\ runs[p].pc = "save_dump"
    /\ progressFile' \in DumpResults(progressFile,
            ProgressJson(runs[p].completed_set, runs[p].clues_cache))
    /\ runs' = [runs EXCEPT ![p] = [@ EXCEPT !.pc = "advance"]]
    /\ UNCHANGED datasetFile
    /\ ParFrame

\* lines 204-213
PAdvanceBatch(p) ==
    /\ runs[p].pc = "advance"
    /\ runs' = [runs EXCEPT ![p] =
                  [@ EXCEPT !.pc = "loop", !.batch_num = @ + 1]]
    /\ UNCHANGED disk
    /\ ParFrame

\* lines 215-222
PWriteDatasetOpen(p) ==
    /\ runs[p].pc = "loop"
    /\ runs[p].batch_num >= RunBatchCount(runs[p])
    /\ datasetFile' = Truncated
    /\ runs' = [runs EXCEPT ![p] =
                  [@ EXCEPT !.pc = "write_dump", !.data = Stamped(@)]]
    /\ UNCHANGED progressFile
    /\ ParFrame

\* line 223
PWriteDatasetDump(p) ==
    /\ runs[p].pc = "write_dump"
    /\ datasetFile' \in DumpResults(datasetFile, runs[p].data)
    /\ runs' = [runs EXCEPT ![p] = [@ EXCEPT !.pc = "clear"]]
    /\ UNCHANGED progressFile
    /\ ParFrame

\* line 226: os.path.exists(PROGRESS_FILE)
PClearCheck(p) ==
    /\ runs[p].pc = "clear"
    /\ runs' = [runs EXCEPT ![p] =
                  [@ EXCEPT !.pc = IF progressFile.state = "absent"
                                   THEN "done" ELSE "remove"]]
    /\ UNCHANGED disk
    /\ ParFrame

\* line 227: os.remove raises FileNotFoundError if the file is gone by now
PClearRemove(p) ==
    /\ runs[p].pc = "remove"
    /\ IF progressFile.state = "absent"
       THEN /\ runs' = [runs EXCEPT ![p] = [@ EXCEPT !.pc = "failed"]]
            /\ UNCHANGED progressFile
       ELSE /\ runs' = [runs EXCEPT ![p] = [@ EXCEPT !.pc = "done"]]
            /\ progressFile' = Absent
    /\ UNCHANGED datasetFile
    /\ ParFrame

ParNext ==
    \E p \in RunIds :
        \/ PLoadDictionary(p)
        \/ PLoadProgress(p)
        \/ PBeginBatch(p)
        \/ PGenerate(p)
        \/ PMergeBatch(p)
        \/ PSaveProgressOpen(p)
        \/ PSaveProgressDump(p)
        \/ PAdvanceBatch(p)
        \/ PWriteDatasetOpen(p)
        \/ PWriteDatasetDump(p)
        \/ PClearCheck(p)
        \/ PClearRemove(p)

ParSpec == ParInit /\ [][ParNext]_vars

(* ------------------------------ properties ------------------------------ *)
RECURSIVE Concat(_)
Concat(seqs) == IF seqs = <<>> THEN <<>> ELSE Head(seqs) \o Concat(Tail(seqs))

CeilDiv(p, b) == IF p % b = 0 THEN p \div b ELSE (p \div b) + 1

\* the indices of the checkpoint this run started from
LoadedIndices == IF hist.loaded.state = "ok"
                 THEN Elems(hist.loaded.completed_indices) ELSE {}

\* the batch loop has been entered and no exception has ended the run
InLoop == pc \in {"loop", "generate", "merge", "save_open", "save_dump",
                  "advance", "write_dump", "clear", "done"}

\* the batch loop is over
LoopDone == pc \in {"write_dump", "clear", "done"}

\* C1: a run that loaded checkpoint C puts no index of C.completed_indices
\* into any batch it hands to generate_clues_batch.
C1_NoReprocess ==
    \A b \in 1 .. Len(hist.batches) :
        \A k \in 1 .. Len(hist.batches[b]) :
            hist.batches[b][k] \notin LoadedIndices

\* C1 witness: the run was stopped right after a checkpoint save, and the
\* restarted run, which loaded a non-empty checkpoint, has a batch in flight.
C1_Witness ==
    /\ hist.crashedAt = "advance"
    /\ LoadedIndices # {}
    /\ pc = "generate"
    /\ Len(hist.batches) >= 1

\* C2: when the Dataset artifact has been written and the checkpoint is not
\* yet cleared, every completed Dataset index has, in the artifact, the
\* clue the checkpoint's clue map holds for it.
C2_FullMerge ==
    pc = "clear" =>
        /\ datasetFile.state = "ok"
        /\ \A i \in completed_set \cap Indices :
              datasetFile.words[i] = clues_cache[Str(i)]

\* C3: after a termination during save_progress the progress file is the
\* complete previous checkpoint or the complete new one.
C3_AtomicSave ==
    (pc = "start" /\ hist.crashedAt \in {"save_open", "save_dump"}) =>
        (progressFile = hist.lastGood \/ progressFile = hist.saving)

\* what load_progress returns holds every index and clue of good
HoldsAll(good) ==
    \/ good.state = "absent"
    \/ /\ progressFile.state # "truncated"
       /\ \A i \in Elems(good.completed_indices) :
             /\ i \in Elems(load_progress.completed_indices)
             /\ Str(i) \in DOMAIN load_progress.clues
             /\ load_progress.clues[Str(i)] = good.clues[Str(i)]

\* C4: after a termination anywhere in the batch loop, the checkpoint the
\* restart loads holds every index and clue of the batches that were
\* completely processed (saved) before the batch in flight.
C4_AtMostOneBatchLost ==
    (pc = "start" /\ hist.crashedAt \in {"loop", "generate", "merge",
                                         "save_open", "save_dump", "advance"})
        => HoldsAll(hist.lastGood)

\* C5: whenever the checkpoint has been cleared and is absent, the Dataset
\* artifact is complete and holds, for every Dataset index the cleared
\* checkpoint had completed, the checkpoint's clue.
C5_CommitOrdering ==
    (hist.cleared.state = "ok" /\ progressFile.state = "absent") =>
        /\ datasetFile.state = "ok"
        /\ \A i \in Elems(hist.cleared.completed_indices) \cap Indices :
              datasetFile.words[i] = hist.cleared.clues[Str(i)]

\* C6: once the batches B1..Bn of a run are merged, the indices this run
\* added to the completed set are exactly those of B1..Bn, each once, and
\* the persisted list holds the completed set without a duplicate.
C6_CompletedIsUnion ==
    (InLoop /\ pc \notin {"generate", "merge"}) =>
        /\ completed_set \ LoadedIndices = Elems(Concat(hist.batches))
        /\ Cardinality(completed_set \ LoadedIndices) = Len(Concat(hist.batches))
        /\ pc = "advance" =>
              /\ Elems(progressFile.completed_indices) = completed_set
              /\ Len(progressFile.completed_indices) = Cardinality(completed_set)

\* C6 witness: two batches have been merged and saved by a
\* run that started from a non-empty checkpoint.
C6_Witness ==
    /\ pc = "advance"
    /\ Len(hist.batches) = 2
    /\ LoadedIndices # {}

\* C7: the loop yields ceil(P/B) batches, each but the last of size B, the
\* last of size 1..B, and their concatenation is the pending list.
C7_Batching ==
    InLoop =>
        LET P == Len(indices_to_process)
            bs == hist.batches
        IN  /\ Len(bs) <= CeilDiv(P, BATCH_SIZE)
            /\ \A k \in 1 .. Len(bs) :
                  /\ 1 <= Len(bs[k]) /\ Len(bs[k]) <= BATCH_SIZE
                  /\ k < CeilDiv(P, BATCH_SIZE) => Len(bs[k]) = BATCH_SIZE
            /\ Concat(bs) = SubSeq(indices_to_process, 1, Len(Concat(bs)))
            /\ LoopDone =>
                  /\ Len(bs) = CeilDiv(P, BATCH_SIZE)
                  /\ Concat(bs) = indices_to_process

\* C7 witness: the loop is over after at least two batches, the last of
\* them short.
C7_Witness ==
    /\ pc = "clear"
    /\ Len(hist.batches) >= 2
    /\ Len(hist.batches[Len(hist.batches)]) < BATCH_SIZE

\* C8: for array replies of any length, unparseable replies and service
\* errors, generate_clues_batch does not raise and the value it returns
\* has exactly as many clues as the batch has words.
C8_ExactlyK ==
    /\ hist.last.kind \in {"array", "unparseable", "api_error"} =>
          hist.returned # "raised"
    /\ (pc = "merge" /\ hist.last.kind \in {"array", "unparseable", "api_error"}) =>
          Len(clues) = Len(batch_indices)

\* C8 witness: an array reply of the wrong length has been returned from.
C8_Witness ==
    /\ pc = "merge"
    /\ hist.last.kind = "array"
    /\ hist.last.len # Len(batch_indices)

\* C9: when all MAX_RETRIES attempts failed, generate_clues_batch returns
\* (it does not raise) the clue "Define: <w>" for each word w in its place.
C9_FallbackClues ==
    /\ (pc = "generate" /\ attempt = MAX_RETRIES) =>
          hist.last.kind \in {"unparseable", "api_error"}
    /\ hist.returned = "fallback" =>
          hist.last.kind \in {"unparseable", "api_error"}
    /\ (pc = "merge" /\ hist.returned = "fallback") =>
          /\ Len(clues) = Len(batch_indices)
          /\ \A k \in 1 .. Len(batch_indices) :
                clues[k] = <<"Define: ", Word(PyIndex(batch_indices[k]))>>

\* C9 witness: a batch of two words came back as fallback clues.
C9_Witness ==
    /\ pc = "merge"
    /\ hist.returned = "fallback"
    /\ Len(batch_indices) >= 2

\* C10: no reply of the service makes generate_clues_batch raise, so no
\* run ends in an exception because of a reply.
C10_FailuresAbsorbed == hist.returned # "raised"

\* C11: a progress file that exists and cannot be parsed makes the load
\* raise: the step leaves both artifacts as they are and ends the run (or
\* the run is terminated from outside), and a run that ended in an exception
\* does nothing more: no service call, no write.
C11_CorruptCheckpointFails ==
    [][/\ (pc = "load_progress" /\ progressFile.state = "truncated") =>
            (pc' \in {"failed", "start"} /\ UNCHANGED disk)
       /\ pc # "failed"]_vars

\* C11 witness: the run ended at the load of a truncated progress file.
C11_Witness ==
    /\ pc = "failed"
    /\ progressFile.state = "truncated"
    /\ data.state = "ok"
    /\ hist.loaded.state = "absent"

\* C12: an array reply of m # K entries is returned from at once, corrected:
\* its first min(m, K) entries in place, "Define: <word>" from position m
\* on; the batch is merged and all its K indices are completed.
C12_PadOrTruncate ==
    LET K == Len(batch_indices)
        m == hist.last.len
    IN  (hist.last.kind = "array" /\ m # K) =>
            /\ hist.returned = "reply"
            /\ pc # "failed"
            /\ pc = "merge" =>
                  /\ Len(clues) = K
                  /\ \A j \in 1 .. K :
                        clues[j] = IF j <= m THEN <<"svc", j>>
                                   ELSE <<"Define: ", Word(PyIndex(batch_indices[j]))>>
            /\ pc \in {"save_open", "save_dump", "advance"} =>
                  /\ Elems(batch_indices) \subseteq completed_set
                  /\ \A j \in 1 .. K :
                        clues_cache[Str(batch_indices[j])] = clues[j]

\* C12 witness: a reply of one clue for a batch of two words has been
\* padded, merged and saved.
C12_Witness ==
    /\ pc = "advance"
    /\ hist.last.kind = "array"
    /\ hist.last.len = 1
    /\ Len(batch_indices) = 2

\* C13: a run that has a credential, is no dry run, loaded a parseable
\* checkpoint and was never interrupted does not end in an exception (it
\* goes on until the Dataset is written and the checkpoint removed).
C13_RunCompletes ==
    (args.api_key /\ ~args.dry_run /\ crashes = 0 /\ hist.loaded.state = "ok")
        => pc # "failed"

\* the pending list a sub-range (s, L) stands for
SubRange ==
    SelectSeq(Range(args.start,
                    IF args.limit_given
                    THEN Min(NumWords, args.start + args.limit)
                    ELSE NumWords),
              LAMBDA i : i \notin LoadedIndices)

\* C14: for a start offset s >= 0 and a limit L >= 0 (or none), the pending
\* indices are those of s <= i < min(N, s + L) (s <= i < N without a limit)
\* that the checkpoint does not hold, and no other index is requested or
\* completed by the run.
C14_SubRange ==
    (args.start >= 0 /\ hist.loaded.state = "ok" /\ pc # "start") =>
        /\ indices_to_process = SubRange
        /\ Elems(Concat(hist.batches)) \subseteq Elems(SubRange)
        /\ (completed_set \ LoadedIndices) \subseteq Elems(SubRange)

\* C16: without a credential and without dry-run the run exits before it
\* loads anything: nothing is read, requested or written; with dry-run the
\* missing credential does not end the run.
C16_MissingCredential ==
    /\ (~args.api_key /\ ~args.dry_run) =>
          /\ pc \in {"start", "exit1"}
          /\ data = Absent
          /\ hist.batches = <<>>
          /\ datasetFile = InitialDataset
          /\ progressFile = Absent
    /\ pc = "exit1" => (~args.api_key /\ ~args.dry_run)

\* C16 witness: the run has exited with status 1.
C16_Witness == pc = "exit1"

\* C17: no step of a dry run changes the Dataset artifact or the progress
\* file, and a dry run never reaches the generation call.
C17_DryRunFrame ==
    [][args.dry_run =>
          /\ UNCHANGED disk
          /\ pc' \notin {"loop", "generate", "merge", "save_open", "save_dump",
                          "advance", "write_dump", "clear", "done"}]_vars

\* C17 witness: a dry run has listed its planned work and returned.
C17_Witness ==
    /\ args.dry_run
    /\ pc = "returned"
    /\ Len(indices_to_process) >= 2

\* C18: at most MAX_RETRIES attempts per batch, a sleep only after a failed
\* attempt, and each delay longer than the one before it.
C18_Backoff ==
    /\ attempt <= MAX_RETRIES
    /\ Len(slept) <= attempt
    /\ \A k \in 1 .. (Len(slept) - 1) : slept[k] < slept[k + 1]

\* C19: in a complete persisted checkpoint the keys of the clue map are
\* exactly str(i) for the completed indices i, as many as there are indices.
C19_Cardinality ==
    progressFile.state = "ok" =>
        /\ DOMAIN progressFile.clues =
              {Str(i) : i \in Elems(progressFile.completed_indices)}
        /\ Cardinality(DOMAIN progressFile.clues) =
              Len(progressFile.completed_indices)

\* C19 witness: a run resumed from a non-empty checkpoint has saved again.
C19_Witness ==
    /\ pc = "advance"
    /\ LoadedIndices # {}
    /\ Len(progressFile.completed_indices) > Cardinality(LoadedIndices)

\* C20: every index the run requests or completes is an index of the
\* Dataset, 0..N-1, whatever the start offset and limit.
C20_ValidIndices ==
    /\ Elems(Concat(hist.batches)) \subseteq Indices
    /\ completed_set \subseteq Indices
    /\ progressFile.state = "ok" =>
          Elems(progressFile.completed_indices) \subseteq Indices

\* the indices run p was started for
RunRange(p) ==
    {i \in Indices : runs[p].args.start <= i /\ i < RunEndIdx(runs[p].args)}

BothDone == \A p \in RunIds : runs[p].pc = "done"

\* the Dataset artifact holds, for every index of both ranges, the clue the
\* run of that range generated
HoldsBothRuns ==
    /\ datasetFile.state = "ok"
    /\ \A p \in RunIds : \A i \in RunRange(p) :
          /\ Str(i) \in DOMAIN runs[p].clues_cache
          /\ datasetFile.words[i] = runs[p].clues_cache[Str(i)]

\* C15: when two runs over disjoint ranges have both completed, however
\* their steps interleaved, the Dataset artifact holds the clues of both.
C15_ParallelRuns == BothDone => HoldsBothRuns

\* one run started only after the other had completed
OneAfterTheOther == \E p \in RunIds : runs[p].after
====
